---- MODULE Spec2Model ----
(***************************************************************************)
(* Real-time notification layer of the chat backend: socket.io handshake   *)
(* middleware, per-user rooms, churn reconciliation (backend/server.js)    *)
(* and the REST handlers that persist and emit notifications               *)
(* (routes/chat.js, routes/auth.js, routes/user.js).                       *)
(***************************************************************************)
EXTENDS Integers, Sequences, FiniteSets, TLC

\* ---------------------------------------------------------------- bounds
MaxConns == 2
MaxEvents == 2
MaxReadReqs == 1
MaxReqs == 2
MaxNotifyConns == 1
MaxStamp == 2

\* ------------------------------------------------------------- universes
Users == {"alice", "bob"}
Ghost == "ghost"
UserIds == Users \cup {Ghost}
NoUser == "none"
ProUsers == {"alice"}
Conns == 1..MaxConns
Reqs == 1..MaxReqs
ConvIds == {"conv1"}

\* prev: the connection this one replaces after a credential refresh (0: none)
Credentials ==
  {[kind |-> "missing", userId |-> NoUser, prev |-> 0],
   [kind |-> "invalid", userId |-> NoUser, prev |-> 0]}
    \cup {[kind |-> "token", userId |-> u, prev |-> 0] : u \in UserIds}

userRoom(u) == [kind |-> "user", id |-> u]
convRoom(k) == [kind |-> "conv", id |-> k]
privateRoom(c) == [kind |-> "sid", id |-> ToString(c)]
RoomNames ==
  {userRoom(u) : u \in UserIds} \cup {convRoom(k) : k \in ConvIds}
    \cup {privateRoom(c) : c \in Conns}

VARIABLES status, cred, userId, rooms, inbox, handled, closing,
          store, nextId, touched, req, timers, credits

sockVars == <<status, cred, userId, rooms, inbox, handled, closing>>
restVars == <<store, nextId, touched, req, timers, credits>>
\* per user's conversation: the number of stored Message documents and the
\* stored metadata.messageCount of the Conversation document; per user: the
\* day of the stored lastLogin
VARIABLES messages, messageCount, lastLogin

docVars == <<messages, messageCount, lastLogin>>

\* one browser client: the Redux state (user, notifications), localStorage
\* (token), the socket service's module variable (socket), the socket
\* objects it has created (csock), the AuthProvider effect's last run (run)
\* and the outcome of the last pushed notification (lastPush)
VARIABLES user, token, socket, csock, notifications, run, lastPush

clientVars == <<user, token, socket, csock, notifications, run, lastPush>>
vars == <<status, cred, userId, rooms, inbox, handled, closing,
          store, nextId, touched, req, timers, credits, docVars, clientVars>>

\* ---------------------------------------------------------------- helpers
Range(s) == {s[i] : i \in 1..Len(s)}
Members(r) == Range(rooms[r])
RoomsOf(c) == {r \in RoomNames : c \in Members(r)}
Without(s, S) == SelectSeq(s, LAMBDA x : x \notin S)
Add(s, c) == IF c \in Range(s) THEN s ELSE Append(s, c)

\* ------------------------------------------------------- socket.io server
\* io.use middleware, synchronous part: token presence and jwt.verify
HandshakeSync(k) ==
  IF k.kind = "missing" THEN "rejected"
  ELSE IF k.kind = "invalid" THEN "rejected"
  ELSE "pending"

\* the middleware without its `if (!user)` test
HandshakeResume_NoUserCheck(k, dbOk) == IF ~dbOk THEN "rejected" ELSE "admitted"

\* io.use middleware after `await User.findById(decoded.userId)`
HandshakeResume(k, dbOk) ==
  IF ~dbOk THEN "rejected"
  ELSE IF k.userId \notin Users THEN "rejected"
  ELSE "admitted"

\* listeners attached before the credential has been verified
HandlersRegistered_Early(c) == status[c] \in {"pending", "connected"}

\* the join-conversation / send-message / disconnect listeners exist only
\* once the 'connection' callback has run for the socket
HandlersRegistered(c) == status[c] = "connected"

\* the cleanup with `===` for `!==`: it removes the room's rightful members
cleanupOrphanedSockets_Inverted(rm, uid, st) ==
  [r \in RoomNames |->
     IF r.kind = "user"
       THEN SelectSeq(rm[r], LAMBDA s : ~(st[s] = "connected" /\ uid[s] = r.id))
       ELSE rm[r]]

\* a cleanup that takes an orphan out of every room it is in
cleanupOrphanedSockets_LeaveAll(rm, uid, st) ==
  LET orphans == {s \in Conns : \E r \in RoomNames :
                    r.kind = "user" /\ s \in Range(rm[r]) /\ st[s] = "connected" /\ uid[s] # r.id}
  IN [r \in RoomNames |-> Without(rm[r], orphans)]

\* cleanupOrphanedSockets(io): every room named user:<id> loses the live
\* sockets whose userId differs from <id>
cleanupOrphanedSockets(rm, uid, st) ==
  [r \in RoomNames |->
     IF r.kind = "user"
       THEN SelectSeq(rm[r], LAMBDA s : ~(st[s] = "connected" /\ uid[s] # r.id))
       ELSE rm[r]]

\* a connection callback that evicts nobody
OlderSockets_None(existingRoom, c) == {}

\* "Keep only the newest socket, disconnect older ones": every member but
\* the last of the room's insertion order, the joining socket excepted
OlderSockets(existingRoom, c) ==
  IF Len(existingRoom) > 1
    THEN {existingRoom[i] : i \in 1..(Len(existingRoom) - 1)} \ {c}
    ELSE {}

\* socket.join(room) on every room of the set
JoinAll(rm, c, rs) == [r \in RoomNames |-> IF r \in rs THEN Add(rm[r], c) ELSE rm[r]]

\* a disconnect that leaves the user rooms only
LeaveAll_UserRoomsOnly(rm, S) ==
  [r \in RoomNames |-> IF r.kind = "user" THEN Without(rm[r], S) ELSE rm[r]]

\* socket.disconnect() / transport close: the socket leaves every room
LeaveAll(rm, S) == [r \in RoomNames |-> Without(rm[r], S)]

\* a client opens a socket with credential k; the middleware runs up to
\* its first await
Connect(c, k) ==
  /\ status[c] = "idle"
  /\ \A d \in Conns : d < c => status[d] # "idle"
  /\ status' = [status EXCEPT ![c] = HandshakeSync(k)]
  /\ cred' = [cred EXCEPT ![c] = k]
  /\ UNCHANGED <<userId, rooms, inbox, handled, closing>>
  /\ UNCHANGED restVars
  /\ UNCHANGED clientVars
  /\ UNCHANGED docVars

\* the rooms after socket.join(userRoom) and cleanupOrphanedSockets(io)
Reconciled(c, u) ==
  cleanupOrphanedSockets(JoinAll(rooms, c, {privateRoom(c), userRoom(u)}),
                         [userId EXCEPT ![c] = u], [status EXCEPT ![c] = "connected"])

\* the rooms once the connection callback has run for socket c of user u
RoomsAfterJoin(c, u) ==
  LeaveAll(Reconciled(c, u), OlderSockets(Reconciled(c, u)[userRoom(u)], c))

\* io.on('connection'): private room, user room, orphan cleanup, eviction
ConnectionHandler(c, u) ==
  LET uid == [userId EXCEPT ![c] = u]
      st == [status EXCEPT ![c] = "connected"]
      cleaned == Reconciled(c, u)
      old == OlderSockets(cleaned[userRoom(u)], c)
  IN /\ userId' = uid
     /\ rooms' = RoomsAfterJoin(c, u)
     /\ status' = [d \in Conns |-> IF d \in old THEN "evicted" ELSE st[d]]
     /\ closing' = closing \ old

\* User.findById settles and the middleware finishes; on next() the
\* connection callback runs in the same turn
HandshakeDone(c, dbOk) ==
  /\ status[c] = "pending"
  /\ IF HandshakeResume(cred[c], dbOk) = "admitted"
       THEN ConnectionHandler(c, cred[c].userId)
       ELSE /\ status' = [status EXCEPT ![c] = "rejected"]
            /\ UNCHANGED <<userId, rooms, closing>>
  /\ UNCHANGED <<cred, inbox, handled>>
  /\ UNCHANGED restVars
  /\ UNCHANGED clientVars
  /\ UNCHANGED docVars

\* socket.on('join-conversation', conversationId => socket.join(conversationId))
JoinConversation(c, r) ==
  /\ HandlersRegistered(c)
  /\ rooms' = JoinAll(rooms, c, {r})
  /\ UNCHANGED <<status, cred, userId, inbox, closing>>
  /\ UNCHANGED restVars
  /\ UNCHANGED clientVars
  /\ UNCHANGED docVars

NewMessage(c, r) == [ev |-> "new-message", id |-> 0, target |-> r.id, type |-> "", from |-> c]

\* a relay that also echoes to the sender
Relay_Echo(box, rm, r, sender, payload) ==
  [d \in Conns |-> IF d \in Range(rm[r]) \ closing THEN Append(box[d], payload) ELSE box[d]]

\* socket.to(room).emit(...): every member of the room but the sender; a
\* packet written to a transport that has closed is discarded
Relay(box, rm, r, sender, payload) ==
  [d \in Conns |->
     IF d \in (Range(rm[r]) \ {sender}) \ closing THEN Append(box[d], payload) ELSE box[d]]

\* socket.on('send-message', data => socket.to(data.conversationId).emit('new-message', data))
SendMessage(c, r) ==
  /\ HandlersRegistered(c)
  /\ inbox' = Relay(inbox, rooms, r, c, NewMessage(c, r))
  /\ UNCHANGED <<status, cred, userId, rooms, closing>>
  /\ UNCHANGED restVars
  /\ UNCHANGED clientVars
  /\ UNCHANGED docVars

\* the client closes the transport (also while the handshake is pending)
Disconnect(c) ==
  /\ status[c] \in {"pending", "connected"}
  /\ status' = [status EXCEPT ![c] = "closed"]
  /\ rooms' = LeaveAll(rooms, {c})
  /\ closing' = closing \ {c}
  /\ UNCHANGED <<cred, userId, inbox, handled>>
  /\ UNCHANGED restVars
  /\ UNCHANGED clientVars
  /\ UNCHANGED docVars

\* the client's socket.disconnect(): the transport closes at once, the
\* server's disconnect handler runs in a later turn
TransportClose(c) ==
  /\ status[c] = "connected" /\ c \notin closing
  /\ closing' = closing \cup {c}
  /\ UNCHANGED <<status, cred, userId, rooms, inbox, handled>>
  /\ UNCHANGED restVars
  /\ UNCHANGED clientVars
  /\ UNCHANGED docVars

\* refreshAuthToken(token) on a connected client: s.auth = { token },
\* s.disconnect(), s.connect(); the handshake of the new connection c2
\* presents the new credential of the same user
refreshAuthToken(c, c2) ==
  /\ status[c] = "connected" /\ c \notin closing
  /\ status[c2] = "idle"
  /\ \A d \in Conns : d < c2 => status[d] # "idle"
  /\ closing' = closing \cup {c}
  /\ cred' = [cred EXCEPT ![c2] = [cred[c] EXCEPT !.prev = c]]
  /\ status' = [status EXCEPT ![c2] = HandshakeSync(cred'[c2])]
  /\ UNCHANGED <<userId, rooms, inbox, handled>>
  /\ UNCHANGED restVars
  /\ UNCHANGED clientVars
  /\ UNCHANGED docVars

\* POST /api/debug/cleanup-sockets
DebugCleanup ==
  /\ rooms' = cleanupOrphanedSockets(rooms, userId, status)
  /\ UNCHANGED <<status, cred, userId, inbox, handled, closing>>
  /\ UNCHANGED restVars
  /\ UNCHANGED clientVars
  /\ UNCHANGED docVars


\* --------------------------------------------------- notification records
\* a request: its handler's position and answer; nid is the id of the
\* notification it stored, primary whether its own state change was saved,
\* sawRoom whether the target's room had a member when it emitted;
\* lost: a member of the room it emitted to had a closed transport; seen: the
\* balance send-message read back; warned, urgent: threshold notifications
\* it dispatched; notifFailed: a Notification.create of the request threw
NoReq == [kind |-> "none", user |-> NoUser, pc |-> "idle", nid |-> 0, resp |-> 0,
          primary |-> FALSE, sawRoom |-> "unknown", lost |-> FALSE,
          seen |-> 0, warned |-> 0, urgent |-> 0, notifFailed |-> FALSE,
          count |-> 0]
HasMember(rm, u) == IF rm[userRoom(u)] # <<>> THEN "yes" ELSE "no"

\* a document stored with the read flag already set
NewDoc_Read(id, u, title, type) ==
  [id |-> id, userId |-> u, title |-> title, type |-> type, isRead |-> TRUE, readAt |-> 0]

\* Notification.create(doc): the stored document, isRead false by default
NewDoc(id, u, title, type) ==
  [id |-> id, userId |-> u, title |-> title, type |-> type, isRead |-> FALSE, readAt |-> 0]

\* the payload built from a stored document, tagged with the room it is sent to
Payload(doc, to) ==
  [ev |-> "notification", id |-> doc.id, target |-> to, type |-> doc.type, from |-> 0]

\* a broadcast payload: built in place, no document and no id
GlobalPayload(type) ==
  [ev |-> "notification", id |-> 0, target |-> "broadcast", type |-> type, from |-> 0]

\* an emit that skips the member that joined the room first
EmitToRoom_SkipsFirst(box, rm, r, payload) ==
  [d \in Conns |->
     IF d \in Range(Tail(rm[r])) \ closing THEN Append(box[d], payload) ELSE box[d]]

\* io.to(room).emit('notification', payload)
EmitToRoom(box, rm, r, payload) ==
  [d \in Conns |-> IF d \in Range(rm[r]) \ closing THEN Append(box[d], payload) ELSE box[d]]

\* io.emit('notification', payload): every connected socket
EmitAll(box, st, payload) ==
  [d \in Conns |->
     IF st[d] = "connected" /\ d \notin closing THEN Append(box[d], payload) ELSE box[d]]

MidClose(rm, r) == \E d \in Range(rm[r]) : d \in closing

\* an emit that throws when a member's transport has closed
EmitOutcome_Throws(rm, r) == IF MidClose(rm, r) THEN "threw" ELSE "sent"

\* io.to(room).emit(...) inside the handler's try block: the write to a
\* closed transport is dropped by the socket layer and emit returns
EmitOutcome(rm, r) == "sent"

\* the answer after an emit: the handler's catch answers 500 if emit threw
Answer(rm, r, code) == IF EmitOutcome(rm, r) = "threw" THEN 500 ELSE code

DocById(id) == CHOOSE n \in Range(store) : n.id = id
Stored(id) == \E n \in Range(store) : n.id = id

\* ------------------------------------------------------------------ timers
\* setTimeout: timers of equal or shorter delay armed earlier fire first
TimerAt(r, what) == {i \in 1..Len(timers) : timers[i].req = r /\ timers[i].what = what}
TimerReady(i) == \A j \in 1..(i - 1) : timers[j].delay > timers[i].delay
Fires(r, what) == \E i \in TimerAt(r, what) : TimerReady(i)
Disarm(ts, r, what) == SelectSeq(ts, LAMBDA t : ~(t.req = r /\ t.what = what))
Arm(ts, r, what, delay) == Append(ts, [req |-> r, what |-> what, delay |-> delay])

FreeSlot(r) == req[r].kind = "none" /\ \A q \in Reqs : q < r => req[q].kind # "none"

\* ---------------------------------------------------------- REST handlers
ConvDelay == 500
LoginDelay == 1000
BonusDelay == 3000
MaintenanceDelay == 5000
FeatureDelay == 8000
DefaultLimit == 20
StartCredits == 1250

Finish(r, code) == [req EXCEPT ![r].pc = "done", ![r].resp = code]

\* POST /conversations up to the 500 ms wait: conversation.save(), then
\* Notification.create(); any throw lands in the catch and answers 500
CreateConversation(r, u, saveOk, notifOk) ==
  /\ FreeSlot(r)
  /\ LET started == [NoReq EXCEPT !.kind = "createConv", !.user = u]
     IN IF ~saveOk
          THEN /\ req' = [req EXCEPT ![r] = [started EXCEPT !.pc = "done", !.resp = 500]]
               /\ UNCHANGED <<store, nextId, timers>>
          ELSE IF ~notifOk
            THEN /\ req' = [req EXCEPT ![r] =
                      [started EXCEPT !.pc = "done", !.resp = 500, !.primary = TRUE,
                                      !.notifFailed = TRUE]]
                 /\ UNCHANGED <<store, nextId, timers>>
            ELSE /\ store' = Append(store, NewDoc(nextId, u, "New Conversation", "info"))
                 /\ nextId' = nextId + 1
                 /\ timers' = Arm(timers, r, "convEmit", ConvDelay)
                 /\ req' = [req EXCEPT ![r] =
                      [started EXCEPT !.pc = "delay", !.nid = nextId, !.primary = TRUE]]
  /\ UNCHANGED <<touched, inbox>>
  /\ UNCHANGED <<status, cred, userId, rooms, handled, closing, credits>>
  /\ UNCHANGED clientVars
  /\ UNCHANGED docVars

\* POST /conversations after the wait: emit if the user room exists, answer 201
CreateConversationEmit(r) ==
  /\ req[r].kind = "createConv" /\ req[r].pc = "delay"
  /\ Fires(r, "convEmit")
  /\ LET room == userRoom(req[r].user)
         exists == rooms[room] # <<>>
         doc == NewDoc(req[r].nid, req[r].user, "New Conversation", "info")
     IN /\ inbox' = IF exists THEN EmitToRoom(inbox, rooms, room, Payload(doc, req[r].user))
                              ELSE inbox
        /\ req' = [req EXCEPT ![r].pc = "done",
                              ![r].resp = IF exists THEN Answer(rooms, room, 201) ELSE 201,
                              ![r].sawRoom = HasMember(rooms, req[r].user),
                              ![r].lost = MidClose(rooms, room)]
  /\ timers' = Disarm(timers, r, "convEmit")
  /\ UNCHANGED <<store, nextId, touched>>
  /\ UNCHANGED <<status, cred, userId, rooms, handled, closing, credits>>
  /\ UNCHANGED clientVars
  /\ UNCHANGED docVars

\* PUT /profile: User.findByIdAndUpdate, Notification.create, emit at once
UpdateProfile(r, u, updOk, notifOk) ==
  /\ FreeSlot(r)
  /\ LET started == [NoReq EXCEPT !.kind = "profile", !.user = u, !.pc = "done"]
     IN IF ~updOk
          THEN /\ req' = [req EXCEPT ![r] = [started EXCEPT !.resp = 500]]
               /\ UNCHANGED <<store, nextId, inbox>>
          ELSE IF ~notifOk
            THEN /\ req' = [req EXCEPT ![r] = [started EXCEPT !.resp = 500, !.primary = TRUE,
                                                               !.notifFailed = TRUE]]
                 /\ UNCHANGED <<store, nextId, inbox>>
            ELSE LET doc == NewDoc(nextId, u, "Profile Updated", "success")
                 IN /\ store' = Append(store, doc)
                    /\ nextId' = nextId + 1
                    /\ inbox' = EmitToRoom(inbox, rooms, userRoom(u), Payload(doc, u))
                    /\ req' = [req EXCEPT ![r] =
                         [started EXCEPT !.resp = Answer(rooms, userRoom(u), 200),
                                         !.nid = nextId, !.primary = TRUE,
                                         !.sawRoom = HasMember(rooms, u),
                                         !.lost = MidClose(rooms, userRoom(u))]]
  /\ UNCHANGED <<touched, timers>>
  /\ UNCHANGED <<status, cred, userId, rooms, handled, closing, credits>>
  /\ UNCHANGED clientVars
  /\ UNCHANGED docVars

\* "first login of the day": lastLogin's day before today's
FirstLoginOfDay(lastLoginDay, today) == lastLoginDay < today

\* POST /login up to the 1000 ms wait: user.lastLogin = new Date() is saved,
\* the welcome-back notification (its text reads user.credits) is created,
\* then the day of user.lastLogin, which is now this login's, is compared
\* with today's for the good-morning notification; both clock readings fall
\* on the day `today`, and the clock does not run backwards
Login(r, u, today, notifOk) ==
  /\ FreeSlot(r)
  /\ \A v \in Users : lastLogin[v] <= today
  /\ lastLogin' = [lastLogin EXCEPT ![u] = today]
  /\ LET started == [NoReq EXCEPT !.kind = "login", !.user = u, !.primary = TRUE,
                                  !.seen = credits[u]]
         welcome == NewDoc(nextId, u, "Welcome Back!", "success")
         morning == NewDoc(nextId + 1, u, "Good Morning!", "success")
         first == FirstLoginOfDay(lastLogin'[u], today)
     IN IF ~notifOk
          THEN /\ req' = [req EXCEPT ![r] = [started EXCEPT !.pc = "done", !.resp = 500,
                                                             !.notifFailed = TRUE]]
               /\ UNCHANGED <<store, nextId, inbox, timers>>
          ELSE /\ store' = IF first THEN store \o <<welcome, morning>> ELSE Append(store, welcome)
               /\ nextId' = IF first THEN nextId + 2 ELSE nextId + 1
               /\ inbox' = IF first
                             THEN EmitToRoom(inbox, rooms, userRoom(u), Payload(morning, u))
                             ELSE inbox
               /\ timers' = Arm(timers, r, "loginEmit", LoginDelay)
               /\ req' = [req EXCEPT ![r] = [started EXCEPT !.pc = "delay", !.nid = nextId]]
  /\ UNCHANGED <<touched>>
  /\ UNCHANGED <<status, cred, userId, rooms, handled, closing, credits>>
  /\ UNCHANGED clientVars
  /\ UNCHANGED <<messages, messageCount>>

\* POST /login after the wait: emit welcome-back, arm the three follow-up
\* timers, answer 200
LoginEmit(r) ==
  /\ req[r].kind = "login" /\ req[r].pc = "delay"
  /\ Fires(r, "loginEmit")
  /\ LET u == req[r].user
         doc == NewDoc(req[r].nid, u, "Welcome Back!", "success")
     IN inbox' = EmitToRoom(inbox, rooms, userRoom(u), Payload(doc, u))
  /\ timers' = Arm(Arm(Arm(Disarm(timers, r, "loginEmit"),
                           r, "bonus", BonusDelay),
                       r, "maintenance", MaintenanceDelay),
                   r, "newFeature", FeatureDelay)
  /\ req' = Finish(r, 200)
  /\ UNCHANGED <<store, nextId, touched>>
  /\ UNCHANGED <<status, cred, userId, rooms, handled, closing, credits>>
  /\ UNCHANGED clientVars
  /\ UNCHANGED docVars

\* login's 3000 ms timer: create and emit the welcome-bonus notification;
\* a failed create is caught and logged
LoginBonus(r, notifOk) ==
  /\ Fires(r, "bonus")
  /\ LET u == req[r].user
         doc == NewDoc(nextId, u, "Welcome Bonus!", "success")
     IN IF notifOk
          THEN /\ store' = Append(store, doc)
               /\ nextId' = nextId + 1
               /\ inbox' = EmitToRoom(inbox, rooms, userRoom(u), Payload(doc, u))
          ELSE UNCHANGED <<store, nextId, inbox>>
  /\ timers' = Disarm(timers, r, "bonus")
  /\ UNCHANGED <<touched, req>>
  /\ UNCHANGED <<status, cred, userId, rooms, handled, closing, credits>>
  /\ UNCHANGED clientVars
  /\ UNCHANGED docVars

\* login's 5000 ms and 8000 ms timers: io.emit of a payload built in place
LoginGlobal(r, what, type) ==
  /\ Fires(r, what)
  /\ inbox' = EmitAll(inbox, status, GlobalPayload(type))
  /\ timers' = Disarm(timers, r, what)
  /\ UNCHANGED <<store, nextId, touched, req>>
  /\ UNCHANGED <<status, cred, userId, rooms, handled, closing, credits>>
  /\ UNCHANGED clientVars
  /\ UNCHANGED docVars

LoginMaintenance(r) == LoginGlobal(r, "maintenance", "warning")
LoginNewFeature(r) == LoginGlobal(r, "newFeature", "info")

\* POST /notifications/admin/send
AdminSend(r, u, target, to, notifOk) ==
  /\ FreeSlot(r)
  /\ LET started == [NoReq EXCEPT !.kind = "adminSend", !.user = u, !.pc = "done"]
     IN IF u \notin ProUsers
          THEN /\ req' = [req EXCEPT ![r] = [started EXCEPT !.resp = 403]]
               /\ UNCHANGED <<store, nextId, inbox>>
          ELSE IF target = "global"
            THEN /\ inbox' = EmitAll(inbox, status, GlobalPayload("system"))
                 /\ req' = [req EXCEPT ![r] = [started EXCEPT !.resp = 200]]
                 /\ UNCHANGED <<store, nextId>>
            ELSE IF to = NoUser
              THEN /\ req' = [req EXCEPT ![r] = [started EXCEPT !.resp = 400]]
                   /\ UNCHANGED <<store, nextId, inbox>>
              ELSE IF ~notifOk
                THEN /\ req' = [req EXCEPT ![r] = [started EXCEPT !.resp = 500,
                                                                   !.notifFailed = TRUE]]
                     /\ UNCHANGED <<store, nextId, inbox>>
                ELSE LET doc == NewDoc(nextId, to, "Announcement", "system")
                     IN /\ store' = Append(store, doc)
                        /\ nextId' = nextId + 1
                        /\ inbox' = EmitToRoom(inbox, rooms, userRoom(to), Payload(doc, to))
                        /\ req' = [req EXCEPT ![r] =
                             [started EXCEPT !.resp = 200, !.nid = nextId,
                                             !.sawRoom = HasMember(rooms, to)]]
  /\ UNCHANGED <<touched, timers>>
  /\ UNCHANGED <<status, cred, userId, rooms, handled, closing, credits>>
  /\ UNCHANGED clientVars
  /\ UNCHANGED docVars

\* POST /conversations/:conversationId/messages
WarnThreshold == 1248
UrgentThreshold == 1245
WarnDelay == 500
UrgentDelay == 800
AiDelay == 700

\* the low-credit test without its `credits > 0` part
LowCredits_NoFloor(c) == c <= WarnThreshold

LowCredits(c) == c <= WarnThreshold /\ c > 0
VeryLowCredits(c) == c <= UrgentThreshold /\ c > 0

\* `await Notification.create(...)` followed by `await new Promise(setTimeout)`;
\* a throw lands in the handler's catch and answers 500
CreateThenWait(r, rq, notifOk, what, title, type, delay) ==
  IF notifOk
    THEN /\ store' = Append(store, NewDoc(nextId, rq.user, title, type))
         /\ nextId' = nextId + 1
         /\ timers' = Arm(Disarm(timers, r, rq.pc), r, what, delay)
         /\ req' = [req EXCEPT ![r] = [rq EXCEPT !.pc = what, !.nid = nextId]]
    ELSE /\ req' = [req EXCEPT ![r] = [rq EXCEPT !.pc = "done", !.resp = 500,
                                                 !.notifFailed = TRUE]]
         /\ timers' = Disarm(timers, r, rq.pc)
         /\ UNCHANGED <<store, nextId>>

AiResponseNotification(r, rq, notifOk) ==
  CreateThenWait(r, rq, notifOk, "ai", "AI Response Ready", "success", AiDelay)

\* a credit test that lets a balance of 0 pass
InsufficientCredits_Negative(n) == n < 0

\* if (req.user.credits < 1)
InsufficientCredits(n) == n < 1

\* the credit check on req.user, Conversation.findOne, userMessage.save, then
\* conversation.metadata.messageCount += 1 on the loaded document and
\* conversation.save(), which writes the document's value; count is the
\* value the request's in-memory document holds
PostMessage(r, u, convOk, saveOk, metaOk) ==
  /\ FreeSlot(r)
  /\ LET started == [NoReq EXCEPT !.kind = "postMessage", !.user = u, !.pc = "done"]
         saved == ~InsufficientCredits(credits[u]) /\ convOk /\ saveOk
     IN /\ req' = [req EXCEPT ![r] =
             IF InsufficientCredits(credits[u]) THEN [started EXCEPT !.resp = 402]
             ELSE IF ~convOk THEN [started EXCEPT !.resp = 404]
             ELSE IF ~saveOk \/ ~metaOk THEN [started EXCEPT !.resp = 500]
             ELSE [started EXCEPT !.pc = "deduct", !.count = messageCount[u] + 1]]
        /\ messages' = IF saved THEN [messages EXCEPT ![u] = @ + 1] ELSE messages
        /\ messageCount' = IF saved /\ metaOk
                             THEN [messageCount EXCEPT ![u] = @ + 1] ELSE messageCount
  /\ UNCHANGED <<store, nextId, touched, timers, inbox>>
  /\ UNCHANGED <<status, cred, userId, rooms, handled, closing, credits>>
  /\ UNCHANGED <<clientVars, lastLogin>>

\* User.findByIdAndUpdate($inc credits -1), then the AI reply is generated
\* (with its fallback) and saved, and the in-memory document's messageCount
\* is incremented and saved again
PostMessageDeduct(r, aiOk, metaOk) ==
  /\ req[r].kind = "postMessage" /\ req[r].pc = "deduct"
  /\ credits' = [credits EXCEPT ![req[r].user] = @ - 1]
  /\ req' = [req EXCEPT ![r] =
       IF aiOk /\ metaOk
         THEN [@ EXCEPT !.pc = "reread", !.primary = TRUE, !.count = @ + 1]
         ELSE [@ EXCEPT !.pc = "done", !.resp = 500, !.primary = TRUE]]
  /\ messages' = IF aiOk THEN [messages EXCEPT ![req[r].user] = @ + 1] ELSE messages
  /\ messageCount' = IF aiOk /\ metaOk
                       THEN [messageCount EXCEPT ![req[r].user] = req[r].count + 1]
                       ELSE messageCount
  /\ UNCHANGED <<store, nextId, touched, timers, inbox>>
  /\ UNCHANGED <<status, cred, userId, rooms, handled, closing>>
  /\ UNCHANGED <<clientVars, lastLogin>>

\* updatedUser = User.findById(...).select('credits'), the low-credit test
PostMessageReread(r, notifOk) ==
  /\ req[r].kind = "postMessage" /\ req[r].pc = "reread"
  /\ LET rq == [req[r] EXCEPT !.seen = credits[req[r].user]]
     IN IF LowCredits(rq.seen)
          THEN CreateThenWait(r, rq, notifOk, "warn", "Low Credits Warning", "warning",
                              WarnDelay)
          ELSE AiResponseNotification(r, rq, notifOk)
  /\ UNCHANGED <<touched, inbox>>
  /\ UNCHANGED <<status, cred, userId, rooms, handled, closing, credits>>
  /\ UNCHANGED clientVars
  /\ UNCHANGED docVars

\* the warning is emitted after its wait, then the very-low-credit test
PostMessageWarn(r, notifOk) ==
  /\ req[r].kind = "postMessage" /\ req[r].pc = "warn"
  /\ Fires(r, "warn")
  /\ LET u == req[r].user
         doc == NewDoc(req[r].nid, u, "Low Credits Warning", "warning")
         rq == [req[r] EXCEPT !.warned = @ + 1]
     IN /\ inbox' = EmitToRoom(inbox, rooms, userRoom(u), Payload(doc, u))
        /\ IF VeryLowCredits(rq.seen)
             THEN CreateThenWait(r, rq, notifOk, "urgent", "URGENT: Very Low Credits",
                                 "error", UrgentDelay)
             ELSE AiResponseNotification(r, rq, notifOk)
  /\ UNCHANGED <<touched>>
  /\ UNCHANGED <<status, cred, userId, rooms, handled, closing, credits>>
  /\ UNCHANGED clientVars
  /\ UNCHANGED docVars

\* the urgent notification is emitted after its wait
PostMessageUrgent(r, notifOk) ==
  /\ req[r].kind = "postMessage" /\ req[r].pc = "urgent"
  /\ Fires(r, "urgent")
  /\ LET u == req[r].user
         doc == NewDoc(req[r].nid, u, "URGENT: Very Low Credits", "error")
         rq == [req[r] EXCEPT !.urgent = @ + 1]
     IN /\ inbox' = EmitToRoom(inbox, rooms, userRoom(u), Payload(doc, u))
        /\ AiResponseNotification(r, rq, notifOk)
  /\ UNCHANGED <<touched>>
  /\ UNCHANGED <<status, cred, userId, rooms, handled, closing, credits>>
  /\ UNCHANGED clientVars
  /\ UNCHANGED docVars

\* the AI-response notification is emitted if the user room exists; res.json
PostMessageAi(r) ==
  /\ req[r].kind = "postMessage" /\ req[r].pc = "ai"
  /\ Fires(r, "ai")
  /\ LET u == req[r].user
         room == userRoom(u)
         exists == rooms[room] # <<>>
         doc == NewDoc(req[r].nid, u, "AI Response Ready", "success")
     IN /\ inbox' = IF exists THEN EmitToRoom(inbox, rooms, room, Payload(doc, u)) ELSE inbox
        /\ req' = [req EXCEPT ![r].pc = "done",
                              ![r].resp = IF exists THEN Answer(rooms, room, 200) ELSE 200,
                              ![r].sawRoom = HasMember(rooms, u),
                              ![r].lost = MidClose(rooms, room)]
  /\ timers' = Disarm(timers, r, "ai")
  /\ UNCHANGED <<store, nextId, touched>>
  /\ UNCHANGED <<status, cred, userId, rooms, handled, closing, credits>>
  /\ UNCHANGED clientVars
  /\ UNCHANGED docVars

\* GET /notifications: the user's documents, newest first, one page
Reverse(s) == [i \in 1..Len(s) |-> s[Len(s) + 1 - i]]
Min(a, b) == IF a < b THEN a ELSE b
GetNotifications(st, u, unreadOnly, page, limit) ==
  LET found == SelectSeq(st, LAMBDA n : n.userId = u /\ (unreadOnly => ~n.isRead))
      sorted == Reverse(found)
  IN SubSeq(sorted, (page - 1) * limit + 1, Min(page * limit, Len(sorted)))

\* the filter { _id: notificationId, userId: req.user._id } finds a document
OwnedBy(st, u, id) == \E n \in Range(st) : n.id = id /\ n.userId = u

\* 404 NOTIFICATION_NOT_FOUND when findOneAndUpdate / findOneAndDelete
\* returns null
NotificationStatus(st, u, id) == IF OwnedBy(st, u, id) THEN 200 ELSE 404

\* an update that selects the document by _id alone
MarkedRead_AnyOwner(st, u, id, now) ==
  [i \in 1..Len(st) |->
     IF st[i].id = id
       THEN [st[i] EXCEPT !.isRead = TRUE, !.readAt = now] ELSE st[i]]

\* findOneAndUpdate({ _id, userId }, { isRead: true, readAt: new Date() })
MarkedRead(st, u, id, now) ==
  [i \in 1..Len(st) |->
     IF st[i].id = id /\ st[i].userId = u
       THEN [st[i] EXCEPT !.isRead = TRUE, !.readAt = now] ELSE st[i]]

\* updateMany({ userId, isRead: false }, { isRead: true, readAt: new Date() })
AllMarkedRead(st, u, now) ==
  [i \in 1..Len(st) |->
     IF st[i].userId = u /\ ~st[i].isRead
       THEN [st[i] EXCEPT !.isRead = TRUE, !.readAt = now] ELSE st[i]]

\* findOneAndDelete({ _id, userId })
Deleted(st, u, id) == SelectSeq(st, LAMBDA n : ~(n.id = id /\ n.userId = u))

\* PUT /notifications/:notificationId/read: the caller's own document is
\* updated; a request that finds none is answered 404
MarkRead(u, id, now) ==
  /\ store' = MarkedRead(store, u, id, now)
  /\ touched' = IF NotificationStatus(store, u, id) = 200 THEN touched \cup {id} ELSE touched
  /\ UNCHANGED <<nextId, req, timers, credits>>
  /\ UNCHANGED sockVars
  /\ UNCHANGED clientVars
  /\ UNCHANGED docVars

\* PUT /notifications/read-all: updateMany on the caller's unread documents
MarkAllRead(u, now) ==
  /\ store' = AllMarkedRead(store, u, now)
  /\ touched' = touched \cup {n.id : n \in {m \in Range(store) : m.userId = u /\ ~m.isRead}}
  /\ UNCHANGED <<nextId, req, timers, credits>>
  /\ UNCHANGED sockVars
  /\ UNCHANGED clientVars
  /\ UNCHANGED docVars

\* DELETE /notifications/:notificationId: only the caller's own document; a
\* request that finds none is answered 404
DeleteNotification(u, id) ==
  /\ store' = Deleted(store, u, id)
  /\ touched' = IF NotificationStatus(store, u, id) = 200 THEN touched \cup {id} ELSE touched
  /\ UNCHANGED <<nextId, req, timers, credits>>
  /\ UNCHANGED sockVars
  /\ UNCHANGED clientVars
  /\ UNCHANGED docVars

\* ----------------------------------------------------------------- client
MaxSockets == 3
MaxList == 2
MaxSpend == 1

\* the user object as the server returns it (GET /me, POST /login):
\* it has id and credits, and no _id field
Undefined == "undefined"
UserObject(u, n) == [id |-> u, _id |-> Undefined, credits |-> n]
\* state.auth.user is null
NoUserObject == [id |-> NoUser, _id |-> Undefined, credits |-> 0]

\* let socket: undefined until getSocket creates one, null after disconnectSocket
NoSocket == 0
SockIds == 1..MaxSockets
\* socket objects not created yet
Unused(cs) == {s \in SockIds : cs[s].state = "none"}

\* socket.disconnect(); socket.removeAllListeners()
Closed(cs, s) ==
  IF s = NoSocket THEN cs
  ELSE [cs EXCEPT ![s].state = "disconnected", ![s].listeners = <<>>]

\* getSocket without the clean-up of the socket it replaces
getSocket_KeepsOld(sk, cs, tok) ==
  IF tok = NoUser THEN [socket |-> sk, csock |-> cs, s |-> NoSocket]
  ELSE IF sk = NoSocket \/ cs[sk].state # "connected"
    THEN LET new == CHOOSE s \in Unused(cs) : \A t \in Unused(cs) : s <= t
         IN [socket |-> new,
             csock |-> [cs EXCEPT ![new] =
                          [state |-> "created", auth |-> tok, listeners |-> <<>>]],
             s |-> new]
    ELSE [socket |-> sk, csock |-> cs, s |-> sk]

\* getSocket(): null without a stored token; a socket that exists and is
\* connected is reused; otherwise the old one is disconnected and stripped
\* and io(..., autoConnect: false) makes a new one
getSocket(sk, cs, tok) ==
  IF tok = NoUser THEN [socket |-> sk, csock |-> cs, s |-> NoSocket]
  ELSE IF sk = NoSocket \/ cs[sk].state # "connected"
    THEN LET new == CHOOSE s \in Unused(cs) : \A t \in Unused(cs) : s <= t
         IN [socket |-> new,
             csock |-> [Closed(cs, sk) EXCEPT ![new] =
                          [state |-> "created", auth |-> tok, listeners |-> <<>>]],
             s |-> new]
    ELSE [socket |-> sk, csock |-> cs, s |-> sk]

\* connectSocket(): s.connect() unless s is connected
connectSocket(sk, cs, tok) ==
  LET g == getSocket(sk, cs, tok)
  IN IF g.s = NoSocket THEN g
     ELSE IF g.csock[g.s].state # "connected"
       THEN [g EXCEPT !.csock[g.s].state = "connecting"]
       ELSE g

\* disconnectSocket()
disconnectSocket(sk, cs) ==
  IF sk # NoSocket THEN [socket |-> NoSocket, csock |-> Closed(cs, sk)]
  ELSE [socket |-> sk, csock |-> cs]

\* the socket service's refreshAuthToken(token): s.auth = { token }, and a
\* connected s is disconnected and connected again; with no stored token
\* getSocket returned null and the assignment throws
ClientRefreshAuthToken(sk, cs, tok, newTok) ==
  LET g == getSocket(sk, cs, tok)
  IN IF g.s = NoSocket THEN g
     ELSE [g EXCEPT !.csock[g.s].auth = newTok,
                    !.csock[g.s].state = IF @ = "connected" THEN "connecting" ELSE @]

\* getSocket would call io(): the model has a socket object left for it
HasRoom(sk, cs, tok) ==
  (tok # NoUser /\ (sk = NoSocket \/ cs[sk].state # "connected")) => Unused(cs) # {}

\* ids of list entries: payload.id || Date.now()
NoId == [src |-> "none", n |-> 0]
PayloadIds == {NoId} \cup {[src |-> "server", n |-> k] : k \in 1..MaxList}
Payloads == {[id |-> i, userId |-> u] : i \in PayloadIds, u \in Users \cup {NoUser}}

\* the object onNotification dispatches; session records the user of the
\* closure that dispatched it
Entry(l, p, now) ==
  [id |-> IF p.id # NoId THEN p.id ELSE [src |-> "clock", n |-> now],
   read |-> FALSE, session |-> l.id]

\* the reducer without its duplicate check
addNotification_NoCheck(list, e) == <<e>> \o list

\* uiSlice.addNotification
addNotification(list, e) ==
  IF \E i \in 1..Len(list) : list[i].id = e.id THEN list
  ELSE <<e>> \o list

\* onNotification's test: payload.userId && payload.userId !== user._id
Ignores(l, p) == p.userId # NoUser /\ p.userId # l._id

\* onNotification of the closure over user object l
onNotification(list, l, p, now) ==
  IF Ignores(l, p) THEN list ELSE addNotification(list, Entry(l, p, now))

\* the socket calls its 'notification' listeners in the order they were added
RECURSIVE Dispatch(_, _, _, _)
Dispatch(list, ls, p, now) ==
  IF ls = <<>> THEN list
  ELSE Dispatch(onNotification(list, Head(ls), p, now), Tail(ls), p, now)

\* the effect's last run: its timer, the user it closed over, and the socket
\* socketCleanup will take the listeners from
NoRun == [timer |-> "none", user |-> NoUserObject, s |-> NoSocket]
NoPush == [p |-> [id |-> NoId, userId |-> NoUser], signedIn |-> NoUser, result |-> "none"]

ClientInit ==
  /\ user = NoUserObject
  /\ token = NoUser
  /\ socket = NoSocket
  /\ csock = [s \in SockIds |-> [state |-> "none", auth |-> NoUser, listeners |-> <<>>]]
  /\ notifications = <<>>
  /\ run = NoRun
  /\ lastPush = NoPush

\* the effect's clean-up: clearTimeout(timer), then socketCleanup() if the
\* timer had fired with a socket
EffectCleanup(cs, r) ==
  IF r.s # NoSocket
    THEN [cs EXCEPT ![r.s].listeners = SelectSeq(@, LAMBDA l : l # r.user)]
    ELSE cs

\* React re-runs the effect when the user object changes: the last run's
\* clean-up, then disconnectSocket(), then for a user the 100 ms timer
UserChanged(u) ==
  LET d == disconnectSocket(socket, EffectCleanup(csock, run))
  IN /\ socket' = d.socket
     /\ csock' = d.csock
     /\ run' = IF u = NoUserObject THEN NoRun
               ELSE [timer |-> "armed", user |-> u, s |-> NoSocket]

\* a user signs in: the token is stored and the server's user object is put
\* in the store
SignIn(u) ==
  /\ user = NoUserObject
  /\ user' = UserObject(u, StartCredits)
  /\ token' = u
  /\ UserChanged(UserObject(u, StartCredits))
  /\ UNCHANGED <<notifications, lastPush>>
  /\ UNCHANGED <<sockVars, restVars, docVars>>

\* the user signs out: token removed, user set to null
SignOut ==
  /\ user # NoUserObject
  /\ user' = NoUserObject
  /\ token' = NoUser
  /\ UserChanged(NoUserObject)
  /\ UNCHANGED <<notifications, lastPush>>
  /\ UNCHANGED <<sockVars, restVars, docVars>>

\* handleSend: dispatch(updateCredits(currentCredits - 1)) puts a new user
\* object in the store
UpdateCredits ==
  /\ user # NoUserObject
  /\ user.credits > StartCredits - MaxSpend
  /\ user' = [user EXCEPT !.credits = @ - 1]
  /\ UserChanged([user EXCEPT !.credits = @ - 1])
  /\ UNCHANGED <<token, notifications, lastPush>>
  /\ UNCHANGED <<sockVars, restVars, docVars>>

\* the effect's timer fires: connectSocket() and the listeners of this run
TimerFires ==
  /\ run.timer = "armed"
  /\ HasRoom(socket, csock, token)
  /\ LET g == connectSocket(socket, csock, token)
     IN /\ socket' = g.socket
        /\ IF g.s = NoSocket
             THEN /\ csock' = g.csock
                  /\ run' = [run EXCEPT !.timer = "fired"]
             ELSE /\ csock' = [g.csock EXCEPT ![g.s].listeners = Append(@, run.user)]
                  /\ run' = [run EXCEPT !.timer = "fired", !.s = g.s]
  /\ UNCHANGED <<user, token, notifications, lastPush>>
  /\ UNCHANGED <<sockVars, restVars, docVars>>

\* calls of the socket service from anywhere in the client
CallGetSocket ==
  /\ HasRoom(socket, csock, token)
  /\ LET g == getSocket(socket, csock, token)
     IN socket' = g.socket /\ csock' = g.csock
  /\ UNCHANGED <<user, token, notifications, run, lastPush>>
  /\ UNCHANGED <<sockVars, restVars, docVars>>

CallConnectSocket ==
  /\ HasRoom(socket, csock, token)
  /\ LET g == connectSocket(socket, csock, token)
     IN socket' = g.socket /\ csock' = g.csock
  /\ UNCHANGED <<user, token, notifications, run, lastPush>>
  /\ UNCHANGED <<sockVars, restVars, docVars>>

CallDisconnectSocket ==
  /\ LET d == disconnectSocket(socket, csock)
     IN socket' = d.socket /\ csock' = d.csock
  /\ UNCHANGED <<user, token, notifications, run, lastPush>>
  /\ UNCHANGED <<sockVars, restVars, docVars>>

CallRefreshAuthToken(newTok) ==
  /\ HasRoom(socket, csock, token)
  /\ LET g == ClientRefreshAuthToken(socket, csock, token, newTok)
     IN socket' = g.socket /\ csock' = g.csock
  /\ UNCHANGED <<user, token, notifications, run, lastPush>>
  /\ UNCHANGED <<sockVars, restVars, docVars>>

\* the transport of socket s: the server admits it, the connection is lost
\* (reconnection: true starts a new attempt), or the server disconnects it
\* (no reconnection after a server-side disconnect)
Established(s) ==
  /\ csock[s].state = "connecting"
  /\ csock' = [csock EXCEPT ![s].state = "connected"]
  /\ UNCHANGED <<user, token, socket, notifications, run, lastPush>>
  /\ UNCHANGED <<sockVars, restVars, docVars>>

Dropped(s) ==
  /\ csock[s].state = "connected"
  /\ csock' = [csock EXCEPT ![s].state = "connecting"]
  /\ UNCHANGED <<user, token, socket, notifications, run, lastPush>>
  /\ UNCHANGED <<sockVars, restVars, docVars>>

Evicted(s) ==
  /\ csock[s].state = "connected"
  /\ csock' = [csock EXCEPT ![s].state = "disconnected"]
  /\ UNCHANGED <<user, token, socket, notifications, run, lastPush>>
  /\ UNCHANGED <<sockVars, restVars, docVars>>

\* a 'notification' event with payload p arrives on connected socket s
Push(s, p, now) ==
  /\ csock[s].state = "connected"
  /\ Len(notifications) < MaxList
  /\ notifications' = Dispatch(notifications, csock[s].listeners, p, now)
  /\ lastPush' =
       [p |-> p, signedIn |-> user.id,
        result |-> IF csock[s].listeners = <<>> THEN "unheard"
                   ELSE IF \A i \in 1..Len(csock[s].listeners) :
                              Ignores(csock[s].listeners[i], p) THEN "ignored"
                   ELSE IF notifications' = notifications THEN "duplicate"
                   ELSE "added"]
  /\ UNCHANGED <<user, token, socket, csock, run>>
  /\ UNCHANGED <<sockVars, restVars, docVars>>

\* ------------------------------------------------------------------ specs
Boot(cr) ==
  /\ status = [c \in Conns |-> "idle"]
  /\ cred = [c \in Conns |-> [kind |-> "missing", userId |-> NoUser, prev |-> 0]]
  /\ userId = [c \in Conns |-> NoUser]
  /\ rooms = [r \in RoomNames |-> <<>>]
  /\ inbox = [c \in Conns |-> <<>>]
  /\ handled = 0
  /\ closing = {}
  /\ credits = cr
  /\ store = <<>>
  /\ nextId = 1
  /\ touched = {}
  /\ req = [r \in Reqs |-> NoReq]
  /\ timers = <<>>
  /\ messages = [u \in Users |-> 0]
  /\ messageCount = [u \in Users |-> 0]
  /\ lastLogin = [u \in Users |-> 0]
  /\ ClientInit

\* every user has the schema's default balance
Init == Boot([u \in Users |-> StartCredits])

\* handled counts the join-conversation and send-message events the socket
\* server has processed; the socket specification follows MaxEvents of them
Counted(A) == handled < MaxEvents /\ A /\ handled' = handled + 1

\* the socket server alone
Next ==
  \/ \E c \in Conns, k \in Credentials : Connect(c, k)
  \/ \E c \in Conns, dbOk \in BOOLEAN : HandshakeDone(c, dbOk)
  \/ \E c \in Conns, r \in RoomNames : Counted(JoinConversation(c, r))
  \/ \E c \in Conns, r \in RoomNames : Counted(SendMessage(c, r))
  \/ \E c \in Conns : Disconnect(c)
  \/ \E c, c2 \in Conns : refreshAuthToken(c, c2)
  \/ DebugCleanup

Spec == Init /\ [][Next]_vars

\* the REST handlers that persist and emit notifications, over live sockets;
\* nothing is emitted to conversation or private rooms here, so only the
\* joins of user rooms are followed; T is the set of clock readings taken
NotifyConns == 1..MaxNotifyConns
Tokens == {k \in Credentials : k.kind = "token" /\ k.userId \in Users}
UserRooms == {userRoom(u) : u \in Users}

Sockets ==
  \/ \E c \in NotifyConns, k \in Tokens : Connect(c, k)
  \/ \E c \in NotifyConns, dbOk \in BOOLEAN : HandshakeDone(c, dbOk)
  \/ \E c \in NotifyConns, r \in UserRooms : JoinConversation(c, r) /\ UNCHANGED handled
  \/ \E c \in NotifyConns : Disconnect(c)

Notify(R, T) ==
  \/ \E r \in R, u \in Users, saveOk, notifOk \in BOOLEAN :
       CreateConversation(r, u, saveOk, notifOk)
  \/ \E r \in R : CreateConversationEmit(r)
  \/ \E r \in R, u \in Users, updOk, notifOk \in BOOLEAN : UpdateProfile(r, u, updOk, notifOk)
  \/ \E r \in R, u \in Users, target \in {"global", "user"}, to \in Users \cup {NoUser},
        notifOk \in BOOLEAN : AdminSend(r, u, target, to, notifOk)
  \/ \E u \in Users, id \in 1..(nextId - 1), now \in T : MarkRead(u, id, now)
  \/ \E u \in Users, id \in 1..(nextId - 1) : DeleteNotification(u, id)

NextNotify == Sockets \/ Notify(Reqs, {1})

SpecNotify == Init /\ [][NextNotify]_vars

\* the same handlers with MaxReadReqs requests
ReadReqs == 1..MaxReadReqs
NextRead == Sockets \/ Notify(ReadReqs, {1})

SpecRead == Init /\ [][NextRead]_vars

\* the same handlers while clients close their transports
NextDeliver ==
  \/ Sockets
  \/ \E c \in NotifyConns : TransportClose(c)
  \/ Notify(ReadReqs, {1})

SpecDeliver == Init /\ [][NextDeliver]_vars

\* the notification records alone, with the clock readings of `new Date()`
Stamps == 1..MaxStamp
NextRecords ==
  \/ Notify(Reqs, Stamps)
  \/ \E u \in Users, now \in Stamps : MarkAllRead(u, now)

SpecRecords == Init /\ [][NextRecords]_vars

\* POST /login and its timers, over live sockets
NextLogin ==
  \/ Sockets
  \/ \E r \in Reqs, u \in Users, today \in 1..2, notifOk \in BOOLEAN : Login(r, u, today, notifOk)
  \/ \E r \in Reqs : LoginEmit(r)
  \/ \E r \in Reqs, notifOk \in BOOLEAN : LoginBonus(r, notifOk)
  \/ \E r \in Reqs : LoginMaintenance(r)
  \/ \E r \in Reqs : LoginNewFeature(r)

SpecLogin == Init /\ [][NextLogin]_vars

\* send-message requests; the users start from a balance that earlier
\* requests have left
CreditLevels == {0, 1, 1246, 1247, 1249, StartCredits}
InitMessages == \E n \in CreditLevels : Boot([u \in Users |-> n])

Messages(R) ==
  \/ \E r \in R, u \in Users, convOk, saveOk, metaOk \in BOOLEAN :
       PostMessage(r, u, convOk, saveOk, metaOk)
  \/ \E r \in R, aiOk, metaOk \in BOOLEAN : PostMessageDeduct(r, aiOk, metaOk)
  \/ \E r \in R, notifOk \in BOOLEAN : PostMessageReread(r, notifOk)
  \/ \E r \in R, notifOk \in BOOLEAN : PostMessageWarn(r, notifOk)
  \/ \E r \in R, notifOk \in BOOLEAN : PostMessageUrgent(r, notifOk)
  \/ \E r \in R : PostMessageAi(r)

NextMessages ==
  \/ Sockets
  \/ Messages(Reqs)
  \/ \E r \in Reqs, u \in Users, saveOk, notifOk \in BOOLEAN :
       CreateConversation(r, u, saveOk, notifOk)
  \/ \E r \in Reqs : CreateConversationEmit(r)

SpecMessages == InitMessages /\ [][NextMessages]_vars

\* ============================================================ properties
K == 1
Live == {c \in Conns : status[c] = "connected"}
Admitted == {c \in Conns : status[c] \in {"connected", "evicted"}}
BadCredential(k) == k.kind # "token" \/ k.userId \notin Users
Received(c) == Range(inbox[c])
Notifications(c) == {e \in Received(c) : e.ev = "notification"}

\* C1: a connection bound to user u is never a member of room user:v for
\* any v other than u, whatever join-conversation events clients send
C1_NeverInForeignUserRoom ==
  \A c \in Live : \A v \in UserIds : v # userId[c] => c \notin Members(userRoom(v))

\* C3: a user room never holds more than K live connections
C3_AtMostKPerUserRoom ==
  \A u \in UserIds : Cardinality(Members(userRoom(u))) <= K

TwoOpened(c1, c2) ==
  /\ c1 < c2
  /\ cred[c1].kind = "token" /\ cred[c1].userId \in Users /\ cred[c2] = cred[c1]
  /\ {c1, c2} \subseteq Admitted
  /\ \A d \in Conns \ {c1, c2} : status[d] = "idle"
  /\ handled = 0

\* C4: alice opens connection c1, then c2, and nothing else happens; once
\* both handshakes have been admitted, c1 is evicted and user:alice = {c2}
C4_LatestConnectionWins ==
  \A c1, c2 \in Conns :
     TwoOpened(c1, c2) =>
        status[c1] = "evicted" /\ rooms[userRoom(cred[c1].userId)] = <<c2>>

\* C5: a connection whose credential is missing, unverifiable or names no
\* existing user never runs the connection handler, is in no room, and
\* neither sends nor receives an event
C5_BadCredentialRefused ==
  \A c \in Conns :
     BadCredential(cred[c]) =>
        /\ status[c] \in {"idle", "pending", "rejected", "closed"}
        /\ userId[c] = NoUser
        /\ RoomsOf(c) = {}
        /\ inbox[c] = <<>>
        /\ \A d \in Conns : \A e \in Received(d) : e.from # c
C5_Witness ==
  \E c, d \in Conns :
     /\ status[c] = "rejected" /\ cred[c].kind = "token" /\ cred[c].userId = Ghost
     /\ status[d] = "connected" /\ handled > 0

\* C6: every live admitted connection is a member of its own user room
C6_LiveInOwnUserRoom ==
  \A c \in Live : userId[c] \in Users /\ c \in Members(userRoom(userId[c]))
C6_Witness ==
  \E c, d \in Live :
     /\ c # d /\ userId[c] # userId[d]
     /\ handled > 0
     /\ \A r \in RoomNames : r.kind = "user" /\ r.id # userId[d] => d \notin Members(r)

\* C7: while its credential verification is pending a connection is in no
\* room and no event of its own has been handled
C7_PendingIsOutside ==
  \A c \in Conns :
     status[c] = "pending" =>
        /\ RoomsOf(c) = {}
        /\ inbox[c] = <<>>
        /\ \A d \in Conns : \A e \in Received(d) : e.from # c
C7_Witness ==
  \E c, d \in Conns :
     /\ status[c] = "pending" /\ status[d] = "connected"
     /\ cred[c] = cred[d]
     /\ \E k \in ConvIds : d \in Members(convRoom(k))
     /\ RoomsOf(c) = {}

\* C2: a notification emitted to room user:u reaches only connections
\* bound to u
C2_NotificationOnlyToTarget ==
  \A c \in Conns : \A e \in Notifications(c) : e.target \in UserIds => userId[c] = e.target

\* C8: every delivered notification, targeted or broadcast, carries the id
\* of a record that was stored before it was delivered
C8_DeliveredWasPersisted ==
  \A c \in Conns : \A e \in Notifications(c) : e.id \in 1..(nextId - 1)

Matching(res, id) == {i \in 1..Len(res) : res[i].id = id /\ ~res[i].isRead}
DispatchedTo(r) == IF req[r].kind = "adminSend" THEN Users ELSE {req[r].user}

\* C9: a targeted dispatch that finds the target's room empty is still
\* stored and answered with success, and the target's next read returns
\* exactly one unread notification for it (until it is marked read or deleted)
C9_EmptyRoomStillPersisted ==
  \A r \in Reqs :
     req[r].sawRoom = "no" =>
        /\ req[r].resp \in {200, 201}
        /\ req[r].nid \notin touched =>
             \E u \in DispatchedTo(r) : \A unreadOnly \in BOOLEAN :
                Cardinality(Matching(GetNotifications(store, u, unreadOnly, 1, DefaultLimit),
                                     req[r].nid)) = 1
C9_Witness ==
  \E r \in Reqs :
     /\ req[r].kind = "createConv" /\ req[r].sawRoom = "no" /\ req[r].resp = 201
     /\ req[r].nid \notin touched
     /\ \E c \in Conns : status[c] = "connected"

\* C10: the targeted notifications a connection receives for one user
\* arrive in the order in which they were stored
C10_FifoPerTarget ==
  \A c \in Conns : \A i, j \in 1..Len(inbox[c]) :
     /\ i < j
     /\ inbox[c][i].ev = "notification" /\ inbox[c][j].ev = "notification"
     /\ inbox[c][i].target \in UserIds /\ inbox[c][i].target = inbox[c][j].target
     => inbox[c][i].id < inbox[c][j].id

WaitPcs == {"delay", "warn", "urgent", "ai"}
DeliveryStep(r) == req[r].pc \in WaitPcs /\ req'[r].pc # req[r].pc
OpenMembers(u) == {c \in Members(userRoom(u)) : userId[c] = u /\ c \notin closing}

\* C11: when a handler's delivery step runs for a stored notification of
\* user u, every connection bound to u that is then a member of room user:u
\* with an open transport has the notification in its inbox afterwards
C11_MemberReceives ==
  [][\A r \in Reqs :
       DeliveryStep(r) =>
          \A c \in OpenMembers(req[r].user) :
             \E i \in 1..Len(inbox'[c]) :
                inbox'[c][i].ev = "notification" /\ inbox'[c][i].id = req[r].nid]_vars
C11_Witness ==
  \E r \in Reqs, c \in Conns :
     /\ req[r].kind = "postMessage" /\ req[r].pc = "done" /\ req[r].resp = 200
     /\ status[c] = "connected" /\ userId[c] = req[r].user
     /\ \E e \in Notifications(c) : e.id = req[r].nid /\ e.type = "success"
     /\ \E e \in Notifications(c) : e.type = "warning"

\* C12: a request whose own state change was saved and whose
\* Notification.create then failed still answers with success
C12_NotificationFailureNotFatal ==
  \A r \in Reqs :
     req[r].pc = "done" /\ req[r].primary /\ req[r].notifFailed => req[r].resp \in {200, 201}

Answered(r) == req[r].kind = "postMessage" /\ req[r].pc = "done" /\ req[r].resp = 200

\* C14: a send-message request that read back a balance of c credits and
\* answered 200 dispatched exactly one warning iff 0 < c <= 1248 and none
\* otherwise, and exactly one error notification iff 0 < c <= 1245 and none
\* otherwise
C14_ThresholdNotifications ==
  \A r \in Reqs :
     Answered(r) =>
        /\ req[r].warned = (IF 0 < req[r].seen /\ req[r].seen <= 1248 THEN 1 ELSE 0)
        /\ req[r].urgent = (IF 0 < req[r].seen /\ req[r].seen <= 1245 THEN 1 ELSE 0)
C14_Witness ==
  \E r \in Reqs :
     /\ Answered(r) /\ req[r].seen = 1245 /\ req[r].warned = 1 /\ req[r].urgent = 1
     /\ \E c \in Conns :
          /\ userId[c] = req[r].user
          /\ \E e \in Notifications(c) : e.type = "warning"
          /\ \E e \in Notifications(c) : e.type = "error"

\* C15: a request dispatches the warning only if its own decrement took the
\* balance from above 1248 to 1248, and the error notification only if it
\* took the balance from above 1245 to 1245
C15_OncePerCrossing ==
  \A r \in Reqs :
     Answered(r) =>
        /\ req[r].warned > 0 => req[r].seen = 1248
        /\ req[r].urgent > 0 => req[r].seen = 1245

Gone(c) == status[c] \in {"closed", "evicted"}
Joining(c) == status[c] = "pending" /\ HandshakeResume(cred[c], TRUE) = "admitted"
RoundTrip(c) == LeaveAll(RoomsAfterJoin(c, cred[c].userId), {c})[userRoom(cred[c].userId)]

\* C16: a connection that has disconnected is a member of no room; and for
\* a connection about to be admitted, its join followed at once by its
\* leave gives a user room that is absent (empty) or as it was before
C16_DisconnectLeavesEveryRoom ==
  /\ \A c \in Conns : Gone(c) => RoomsOf(c) = {}
  /\ \A c \in Conns :
        Joining(c) => RoundTrip(c) = <<>> \/ RoundTrip(c) = rooms[userRoom(cred[c].userId)]
C16_Witness ==
  \E c, d \in Conns :
     /\ status[c] = "closed" /\ userId[c] \in Users
     /\ \E e \in Received(c) : e.ev = "new-message"
     /\ status[d] = "connected" /\ \E k \in ConvIds : d \in Members(convRoom(k))
     /\ RoomsOf(c) = {}

Sent(c, r) == [ev |-> "new-message", id |-> 0, target |-> r.id, type |-> "", from |-> c]
Recipients(c, r) == {d \in Members(r) : d # c /\ d \notin closing}

\* C17: a send-message of connection c for room r appends the payload, as
\* sent, to the inbox of every member of r other than c whose transport is
\* open, and leaves every other inbox (the sender's, the non-members') as
\* it was
C17_RelayToOthersOnly ==
  [][\A c \in Conns, r \in RoomNames :
       SendMessage(c, r) =>
          \A d \in Conns :
             inbox'[d] = IF d \in Recipients(c, r) THEN Append(inbox[d], Sent(c, r))
                                                   ELSE inbox[d]]_vars
C17_Witness ==
  \E c, d \in Conns, r \in RoomNames :
     /\ c # d /\ {c, d} \subseteq Members(r)
     /\ inbox[d] = <<Sent(c, r)>>
     /\ inbox[c] = <<>>

Categories == {"info", "success", "warning", "error"}

\* C18: every stored notification and every notification delivered to a
\* connection has a category among info, success, warning, error
C18_CategoryInFixedSet ==
  /\ \A n \in Range(store) : n.type \in Categories
  /\ \A c \in Conns : \A e \in Notifications(c) : e.type \in Categories

After(n) == CHOOSE m \in Range(store') : m.id = n.id
Kept(n) == \E m \in Range(store') : m.id = n.id

\* C19: in every step a stored record keeps its target, title and category;
\* a read record stays exactly as it is, an unread one is either unchanged
\* or becomes read; and a record disappears only by the delete request of
\* its target user
C19_RecordFrame ==
  [][\A n \in Range(store) :
       IF Kept(n)
         THEN /\ After(n).userId = n.userId
              /\ After(n).title = n.title
              /\ After(n).type = n.type
              /\ n.isRead => After(n) = n
              /\ ~n.isRead => After(n) = n \/ After(n).isRead
         ELSE DeleteNotification(n.userId, n.id)]_vars

Refreshed(c) == cred[c].prev # 0
WasAdmitted(c) == userId[c] # NoUser

\* C20: the connection opened by a credential refresh presents a credential
\* of the same user while the client has closed the old connection; once
\* the new connection has been admitted, the old one is not a member of
\* the user's room
C20_RefreshReplacesConnection ==
  \A c \in Conns :
     Refreshed(c) =>
        /\ cred[c].userId = cred[cred[c].prev].userId
        /\ cred[c].prev \in closing \/ status[cred[c].prev] \in {"closed", "evicted"}
        /\ WasAdmitted(c) => cred[c].prev \notin Members(userRoom(cred[c].userId))
C20_Witness ==
  \E c \in Conns :
     /\ Refreshed(c) /\ status[c] = "connected"
     /\ status[cred[c].prev] = "evicted"
     /\ rooms[userRoom(userId[c])] = <<c>>

\* one client: sign-in and sign-out, credit updates, the effect's timer, the
\* socket service and the transport
NextClient ==
  \/ \E u \in Users : SignIn(u)
  \/ SignOut
  \/ UpdateCredits
  \/ TimerFires
  \/ CallGetSocket
  \/ CallConnectSocket
  \/ CallDisconnectSocket
  \/ \E t \in Users : CallRefreshAuthToken(t)
  \/ \E s \in SockIds : Established(s)
  \/ \E s \in SockIds : Dropped(s)
  \/ \E s \in SockIds : Evicted(s)
  \/ \E s \in SockIds, p \in Payloads, now \in Stamps : Push(s, p, now)

SpecClient == Init /\ [][NextClient]_vars

Orphans(r) == IF r.kind = "user" THEN {c \in Members(r) : userId[c] # r.id} ELSE {}

\* C21: a reconciliation run removes from each user room exactly the members
\* bound to another user, changes no other room and disconnects nobody
C21_CleanupRemovesFromRoomOnly ==
  [][DebugCleanup =>
       /\ status' = status
       /\ \A r \in RoomNames : Range(rooms'[r]) = Members(r) \ Orphans(r)]_vars
C21_Witness ==
  \E c, a \in Conns :
     /\ status[c] = "connected" /\ status[a] = "connected" /\ userId[c] # userId[a]
     /\ \E e \in Received(c) : e.from = a /\ e.target = userId[a]
     /\ c \notin Members(userRoom(userId[a]))
     /\ {userRoom(userId[c]), privateRoom(c)} \subseteq RoomsOf(c)

\* C22: the stored credit balance of every user is never negative
C22_CreditsNeverNegative == \A u \in Users : credits[u] >= 0

ResponseSent(r) == req[r].pc = "done" /\ req[r].resp = 200

\* C23: the step that emits the welcome-back notification of a login request
\* is taken only when that request's response, which carries the token, has
\* already been sent
C23_WelcomeAfterResponse ==
  [][\A r \in Reqs : LoginEmit(r) => ResponseSent(r)]_vars

ProRequested == \E r \in Reqs : req[r].kind # "none" /\ req[r].user \in ProUsers

\* C24: a connection holds a broadcast notification, or a notification
\* targeted at a user other than the one it is bound to, only if a pro user
\* has made a request
C24_OnlyProReachesOthers ==
  \A c \in Conns : \A e \in Notifications(c) :
     (e.target = "broadcast" \/ e.target # userId[c]) => ProRequested

Joined(c, r) == r.kind = "conv" /\ c \in Members(r)

\* C30: a send-message of a connection for a room that it has not joined as
\* a conversation room changes no inbox
C30_RelayOnlyFromMembers ==
  [][\A c \in Conns, r \in RoomNames :
       SendMessage(c, r) /\ ~Joined(c, r) => inbox' = inbox]_vars

LiveSockets == {s \in SockIds : csock[s].state \in {"connecting", "connected"}}
\* C27: the client never holds more than one socket that is connecting or
\* connected; a socket that is connecting or connected is the one the socket
\* service holds; every socket it has replaced is disconnected and has no
\* listeners; and without a stored token and user no socket is live
C27_AtMostOneLiveSocket ==
  /\ Cardinality(LiveSockets) <= 1
  /\ \A s \in SockIds :
       s # socket /\ csock[s].state # "none" =>
         csock[s].state = "disconnected" /\ csock[s].listeners = <<>>
C27_Witness ==
  /\ socket # NoSocket /\ csock[socket].state = "connected"
  /\ Cardinality({s \in SockIds : csock[s].state = "disconnected"}) >= 2

\* C25: a pushed notification that a listener heard is ignored exactly when
\* it carries a userId that is not the id of the signed-in user; one without
\* a userId, or with the signed-in user's id, is taken into the list
C25_AcceptsOwnAndAnonymous ==
  lastPush.result \in {"ignored", "duplicate", "added"} =>
    (lastPush.result = "ignored" <=>
       (lastPush.p.userId # NoUser /\ lastPush.p.userId # lastPush.signedIn))

\* C26: no two entries of the notification list have the same id; adding an
\* entry whose id is present leaves the list as it is, adding any other puts
\* it at the front, and adding the same entry twice equals adding it once
C26_NoDuplicateIds ==
  /\ \A i, j \in 1..Len(notifications) :
       i # j => notifications[i].id # notifications[j].id
  /\ \A p \in Payloads, now \in Stamps :
       LET e == Entry(user, p, now)
           once == addNotification(notifications, e)
       IN /\ addNotification(once, e) = once
          /\ IF \E i \in 1..Len(notifications) : notifications[i].id = e.id
               THEN once = notifications
               ELSE once = <<e>> \o notifications
C26_Witness ==
  /\ lastPush.result = "duplicate"
  /\ \E i \in 1..Len(notifications) : notifications[i].id = lastPush.p.id

Listening ==
  /\ socket # NoSocket
  /\ csock[socket].state = "connected"
  /\ csock[socket].listeners # <<>>
\* C28: an update of the signed-in user's credit balance leaves a connected
\* socket with its notification listener connected and listening
C28_CreditUpdateKeepsSocket ==
  [][UpdateCredits /\ Listening => Listening']_vars

\* C29: while a user is signed in, every entry of the notification list was
\* received in a session of that user, and every notification listener on
\* the client's socket belongs to a session of that user
C29_NothingFromPreviousUser ==
  user # NoUserObject =>
    /\ \A i \in 1..Len(notifications) : notifications[i].session = user.id
    /\ socket # NoSocket =>
         \A i \in 1..Len(csock[socket].listeners) :
            csock[socket].listeners[i].id = user.id

\* C31: a send-message request of a user whose balance is below 1 is
\* answered 402 and changes nothing: no message is stored, no credit is
\* deducted, messageCount is unchanged, and no notification is stored,
\* scheduled or emitted
C31_NoCreditsNoChange ==
  [][\A r \in Reqs, u \in Users, convOk, saveOk, metaOk \in BOOLEAN :
       PostMessage(r, u, convOk, saveOk, metaOk) /\ credits[u] < 1 =>
         /\ req'[r].pc = "done" /\ req'[r].resp = 402
         /\ UNCHANGED <<messages, messageCount, credits, store, nextId, timers, inbox>>]_vars
C31_Witness ==
  \E r \in Reqs :
     /\ req[r].kind = "postMessage" /\ req[r].resp = 402
     /\ credits[req[r].user] < 1
     /\ messages[req[r].user] = 0

MessagesDone == \A r \in Reqs : req[r].kind = "postMessage" => req[r].pc = "done"
\* C36: once every send-message request has completed, each conversation's
\* metadata.messageCount equals the number of its stored messages
C36_CountMatchesMessages ==
  MessagesDone => \A u \in Users : messageCount[u] = messages[u]

Others(st, u) == SelectSeq(st, LAMBDA n : n.userId # u)
\* C32: the read path for user u returns only records that target u; a
\* mark-read, mark-all-read or delete request of u leaves every record that
\* targets another user as it was, and one that names a record of another
\* user is answered 404 and changes no record
C32_OnlyOwnRecords ==
  /\ [](\A u \in Users, unreadOnly \in BOOLEAN, page \in 1..2, limit \in {1, DefaultLimit} :
          \A n \in Range(GetNotifications(store, u, unreadOnly, page, limit)) : n.userId = u)
  /\ [][\A u \in Users, id \in 1..(nextId - 1), now \in Stamps :
          (MarkRead(u, id, now) \/ MarkAllRead(u, now) \/ DeleteNotification(u, id)) =>
             /\ Others(store', u) = Others(store, u)
             /\ (Stored(id) /\ DocById(id).userId # u) /\ ~MarkAllRead(u, now) =>
                   NotificationStatus(store, u, id) = 404 /\ store' = store]_vars
C32_Witness ==
  \E n, m \in Range(store) :
     /\ n.userId # m.userId
     /\ n.isRead /\ n.readAt \in Stamps
     /\ ~m.isRead

BonusCredits == 50
\* C34: when the 'Welcome Bonus!' notification is dispatched for a login of
\* user u, u's stored balance is at least 50 above the balance that login
\* read
C34_BonusIsCredited ==
  [][\A r \in Reqs :
       LoginBonus(r, TRUE) => credits'[req[r].user] >= req[r].seen + BonusCredits]_vars

GoodMorning(st) == {n \in Range(st) : n.title = "Good Morning!"}
\* C35: a login that goes through creates a 'Good Morning!' notification
\* exactly when the user's previous login was on an earlier day than this
\* login
C35_GoodMorningOnFirstLoginOfDay ==
  [][\A r \in Reqs, u \in Users, today \in 1..2 :
       Login(r, u, today, TRUE) =>
         ((GoodMorning(store') # GoodMorning(store)) <=> lastLogin[u] < today)]_vars

OpenedBy(u) ==
  {c \in Conns : status[c] # "idle" /\ cred[c].kind = "token" /\ cred[c].userId = u}
Newest(S) == CHOOSE c \in S : \A d \in S : d <= c
Quiet == closing = {} /\ \A c \in Conns : status[c] # "pending"
\* C33: once no handshake and no close is in progress, the connection that
\* user u opened last, if the server admitted it and its client has not
\* closed it, is the one connection of u that is a member of room user:u
C33_NewestConnectionStays ==
  \A u \in Users :
     (Quiet /\ OpenedBy(u) # {} /\ Newest(OpenedBy(u)) \in Admitted) =>
        Members(userRoom(u)) \cap OpenedBy(u) = {Newest(OpenedBy(u))}
====
